---- MODULE Spec2Model ----
(***************************************************************************)
(* wasmgo: the Go plugin of a WebAssembly build runner.                    *)
(*                                                                         *)
(* The model covers GoPlugin (src/src/builder.rs) and the helpers it calls *)
(* in src/src/lib.rs (CommandExecutor, PathResolver): project detection,   *)
(* entry-file resolution, the dependency probe and the build sequence.     *)
(* Construction from the manifest (GoPlugin::new) decides the initial     *)
(* state, and the commands of main() (src/src/main.rs) run on top of the   *)
(* same calls and end the process with an exit code.                       *)
(*                                                                         *)
(* Strings that the code takes apart (file names, extensions) are          *)
(* sequences of tokens, "." being a token of its own, so that              *)
(* Path::extension, Path::file_stem and to_lowercase are computed and not  *)
(* assumed.  A path is a sequence of components, each a file name.         *)
(* Messages that the code only builds (format!) are TLA+ strings.          *)
(***************************************************************************)
EXTENDS Naturals, Sequences, FiniteSets, TLC

\* ------------------------------------------------------------- bounds

\* The most entries a project directory's listing holds.
MaxEntries == 2

\* ------------------------------------------------------- names, paths

Dot == "."

MainGo == <<"main", Dot, "go">>
AppGo  == <<"app", Dot, "go">>
UtilGo == <<"util", Dot, "go">>
LibGO  == <<"LIB", Dot, "GO">>
GoMod  == <<"go", Dot, "mod">>
Cmd    == <<"cmd">>
\* The directory the clean command removes: <project>/dist.
Dist   == <<"dist">>
\* The path component "..", which Path treats as no file name.
ParentDir == <<"..">>

\* The project directory of every call (BuildConfig.project_path).
ProjectDir == << <<"proj">> >>

\* Option<T>.
None == [some |-> FALSE, val |-> <<>>]
Some(v) == [some |-> TRUE, val |-> v]

Range(s) == {s[i] : i \in DOMAIN s}

\* Path::join of a base path and a relative path.
Join(base, rel) == base \o rel

\* Path::file_name: the last component, unless the path ends in "..".
FileName(path) ==
    IF path = <<>> \/ path[Len(path)] = ParentDir
    THEN None
    ELSE Some(path[Len(path)])

\* The index of the final "." of a file name, 0 when it has none.
LastDot(name) ==
    LET dots == {i \in DOMAIN name : name[i] = Dot}
    IN  IF dots = {} THEN 0 ELSE CHOOSE i \in dots : \A j \in dots : j <= i

\* Path::extension: none without a file name, without a "." or when the only
\* "." starts the name; otherwise what follows the final ".".
Extension(path) ==
    LET f == FileName(path)
    IN  IF ~f.some THEN None
        ELSE IF LastDot(f.val) <= 1 THEN None
        ELSE Some(SubSeq(f.val, LastDot(f.val) + 1, Len(f.val)))

\* file_name taken where file_stem is meant: the extension stays.
FileStemWhole(path) == FileName(path)

\* Path::file_stem: the file name up to its final ".", the whole file name
\* when Path::extension is none.
FileStem(path) ==
    LET f == FileName(path)
    IN  IF ~f.some THEN None
        ELSE IF LastDot(f.val) <= 1 THEN Some(f.val)
        ELSE Some(SubSeq(f.val, 1, LastDot(f.val) - 1))

LowerToken(t) ==
    CASE t = "GO" -> "go"
      [] t = "Go" -> "go"
      [] t = "LIB" -> "lib"
      [] OTHER -> t

\* str::to_lowercase.
ToLowercase(s) == [i \in DOMAIN s |-> LowerToken(s[i])]

\* ------------------------------------------------------------- inputs

\* WasmBuilder::entry_file_candidates, the built-in candidate list.
EntryFileCandidates == << <<MainGo>>, <<Cmd, MainGo>>, <<AppGo>>, <<GoMod>> >>

\* The entry_files a manifest may declare (relative paths, in order).
EntryFileLists ==
    { EntryFileCandidates,
      << <<GoMod>>, <<MainGo>> >>,
      << <<AppGo>>, <<ParentDir>> >>,
      << >> }

\* The extensions a manifest may declare.
ExtensionLists == { << <<"go">> >>, << <<"go">>, <<"mod">> >>, << <<"Go">> >> }

\* The tools a manifest may declare.
DependencyLists ==
    { <<"tinygo", "go">>, <<"go", "make", "tinygo">>, <<"make", "make">>, << >> }

DefaultInfo ==
    [entry_files |-> EntryFileCandidates,
     extensions |-> << <<"go">>, <<"mod">> >>,
     dependencies |-> <<"tinygo", "go">>]

\* The names a project directory may hold.
EntryNames == {MainGo, UtilGo, LibGO, GoMod, Cmd}

\* The sequences of distinct elements of S of length at most n: the orders in
\* which fs::read_dir may yield a directory's entries.
SeqsUpTo(S, n) ==
    UNION { {s \in [1..k -> S] : \A i, j \in 1..k : i # j => s[i] # s[j]}
            : k \in 0..n }

\* BuildConfig.output_directory.
OutputDirs == { << <<"dist">> >>, << <<"out">>, <<"pkg">> >> }

\* What the compiler may write to its standard error.
Stderrs ==
    { "",
      "main.go:3: undefined: x",
      "TinyGo build completed but WASM file was not created" }

\* How a spawned process may end.
Outcomes == {"spawn_failed", "exit_nonzero", "exit_zero"}

\* The probes a call can make: a tool and the version argument it is given.
\* tinygo answers "version"; whether it answers "--version" too is open.
Probes ==
    { <<"tinygo", "version">>, <<"tinygo", "--version">>,
      <<"go", "--version">>, <<"make", "--version">> }

\* -------------------------------------------------------------- state

VARIABLES
    manifest,      \* Cargo.toml in the working directory, as GoPlugin::new finds it
    plugin_info,   \* GoPlugin.plugin_info: entry_files, extensions, dependencies, author
    proj_kind,     \* what lies at ProjectDir: "missing", "file" or "dir"
    listing,       \* the names directly in ProjectDir, in fs::read_dir's order
    sub,           \* the paths that exist one level below ProjectDir's entries
    readable,      \* whether fs::read_dir(ProjectDir) succeeds
    creatable,     \* whether fs::create_dir_all can create a missing directory
    out_dirs,      \* the output directories that exist
    wasm_files,    \* the artifact paths that exist
    probe,         \* how spawning <<tool, version argument>> ends
    op,            \* the call in progress, or the last one
    pc,            \* where that call stands
    config,        \* build's BuildConfig
    entry_file_path, \* build's resolved entry file
    output_path,   \* build's output path
    build_command_output, \* the compiler's Output
    result,        \* what the call returned
    steps,         \* the steps the build call has entered, in order
    invocations,   \* how often the build call has spawned the compiler
    fs_at_call,    \* out_dirs and wasm_files as the call found them
    dist,          \* <project>/dist: "absent", "removable" or "stuck"
    cli            \* the command main() runs or ran, its exit code and the
                   \* failure it printed

vars == <<manifest, plugin_info, proj_kind, listing, sub, readable, creatable, out_dirs,
          wasm_files, probe, op, pc, config, entry_file_path, output_path,
          build_command_output, result, steps, invocations, fs_at_call, dist, cli>>

env == <<manifest, plugin_info, proj_kind, listing, sub, readable, creatable, probe>>

NoResult == [kind |-> "none"]
NoConfig == [project_path |-> <<>>, output_directory |-> <<>>]
NoOutput == [status |-> "none", stderr |-> ""]

\* ----------------------------------------------------- the manifest

\* The keys [package.metadata.wasm-plugin] must hold (WasmPluginConfig).
WasmPluginFields == {"name", "extensions", "entry_files", "capabilities", "dependencies"}

\* A [package.metadata.wasm-plugin] table declaring these lists, each key an
\* Option: None is a key that is not there.
WasmPluginTable(declared) ==
    [name |-> Some("go"),
     extensions |-> Some(declared.extensions),
     entry_files |-> Some(declared.entry_files),
     capabilities |-> Some("capabilities"),
     dependencies |-> Some(declared.dependencies)]

\* A Cargo.toml document: package.authors and package.metadata, each an
\* Option; metadata holds the Option of its wasm-plugin table.
Document(authors, metadata) == [authors |-> authors, metadata |-> metadata]

\* A complete document declaring these lists.
CompleteDocument(declared) ==
    Document(Some(<<"A. Author">>),
             Some([wasm_plugin |-> Some(WasmPluginTable(declared))]))

\* include_str!("../Cargo.toml"): the crate's own manifest.
EmbeddedDocument == CompleteDocument(DefaultInfo)

\* The author lists a manifest may give.
AuthorLists == { <<>>, <<"A. Author">>, <<"A. Author", "B. Author">> }

\* The documents GoPlugin::new may find: complete ones, and ones without
\* authors, without metadata, without the wasm-plugin table or without one
\* of its keys.
Documents ==
    { Document(authors, metadata) :
        authors \in {None} \cup {Some(a) : a \in AuthorLists},
        metadata \in
            {None, Some([wasm_plugin |-> None])}
            \cup { Some([wasm_plugin |-> Some(table)]) :
                     table \in {WasmPluginTable(DefaultInfo)}
                        \cup { [WasmPluginTable(DefaultInfo) EXCEPT ![f] = None]
                               : f \in WasmPluginFields } } }

\* toml::from_str::<CargoToml>: an error when a key that is no Option in
\* CargoPackage, PackageMetadata or WasmPluginConfig is not there.
Deserialize(document) ==
    IF ~document.authors.some
    THEN [kind |-> "Err"]
    ELSE IF ~document.metadata.some
    THEN [kind |-> "Ok", value |-> document]
    ELSE IF ~document.metadata.val.wasm_plugin.some
    THEN [kind |-> "Err"]
    ELSE IF \E f \in WasmPluginFields : ~document.metadata.val.wasm_plugin.val[f].some
    THEN [kind |-> "Err"]
    ELSE [kind |-> "Ok", value |-> document]

\* GoPlugin::read_cargo_toml: the working directory's Cargo.toml if it can
\* be read, the embedded one otherwise.
ReadCargoToml(file) ==
    IF file.readable THEN Deserialize(file.document)
    ELSE Deserialize(EmbeddedDocument)

\* What construction leaves when it aborts: no plugin.
Aborted ==
    [aborted |-> TRUE,
     info |-> [entry_files |-> <<>>, extensions |-> <<>>, dependencies |-> <<>>,
               author |-> ""]]

\* The PluginInfo of a wasm-plugin table and an author.
PluginInfoOf(wasm_plugin, author) ==
    [aborted |-> FALSE,
     info |-> [entry_files |-> wasm_plugin.entry_files.val,
               extensions |-> wasm_plugin.extensions.val,
               dependencies |-> wasm_plugin.dependencies.val,
               author |-> author]]

\* The first author, "Unknown" when there is none.
FirstAuthor(authors) == IF authors = <<>> THEN "Unknown" ELSE authors[1]

\* Missing metadata made up for by the built-in lists.
CreatePluginInfoDefaulting(cargo_config) ==
    IF ~cargo_config.metadata.some
    THEN PluginInfoOf(WasmPluginTable(DefaultInfo), FirstAuthor(cargo_config.authors.val))
    ELSE PluginInfoOf(cargo_config.metadata.val.wasm_plugin.val,
                      FirstAuthor(cargo_config.authors.val))

\* GoPlugin::create_plugin_info: expect() aborts without metadata.
CreatePluginInfo(cargo_config) ==
    IF ~cargo_config.metadata.some
    THEN Aborted
    ELSE PluginInfoOf(cargo_config.metadata.val.wasm_plugin.val,
                      FirstAuthor(cargo_config.authors.val))

\* GoPlugin::load_plugin_info and GoPlugin::new, whose expect() aborts on
\* load_plugin_info's error.
New(file) ==
    LET cargo_config == ReadCargoToml(file)
    IN  IF cargo_config.kind = "Err" THEN Aborted
        ELSE CreatePluginInfo(cargo_config.value)

\* ------------------------------------------------- the file system

\* Path::exists, by stat: a listing that cannot be read hides nothing from it.
PathExists(path) ==
    IF Len(path) >= Len(ProjectDir) /\ SubSeq(path, 1, Len(ProjectDir)) = ProjectDir
    THEN LET rel == SubSeq(path, Len(ProjectDir) + 1, Len(path))
         IN  CASE rel = <<>> -> proj_kind # "missing"
               [] proj_kind # "dir" -> FALSE
               [] rel = <<ParentDir>> -> TRUE
               [] rel = <<Dist>> -> dist # "absent"
               [] Len(rel) = 1 -> rel[1] \in Range(listing)
               [] OTHER -> rel \in sub
    ELSE path \in out_dirs \cup wasm_files

\* fs::read_dir(dir) with .flatten(): the entries' paths, in the order the
\* system yields them; an error when dir is no directory or cannot be read.
ReadDir(dir) ==
    IF dir = ProjectDir /\ proj_kind = "dir" /\ readable
    THEN [ok |-> TRUE, entries |-> [i \in DOMAIN listing |-> Join(dir, <<listing[i]>>)]]
    ELSE [ok |-> FALSE, entries |-> <<>>]

\* ------------------------------------------------ CommandExecutor

VersionArg(tool_name) == IF tool_name = "tinygo" THEN "version" ELSE "--version"

\* The probe's status left unread: a tool that spawns counts as installed.
IsToolInstalledIfSpawned(tool_name) ==
    probe[<<tool_name, VersionArg(tool_name)>>] # "spawn_failed"

\* CommandExecutor::is_tool_installed.
IsToolInstalled(tool_name) == probe[<<tool_name, VersionArg(tool_name)>>] = "exit_zero"

\* --------------------------------------------------- PathResolver

\* PathResolver::join_paths.
JoinPaths(base_path, relative_path) == Join(base_path, relative_path)

\* PathResolver::validate_directory_exists.
ValidateDirectoryExists(directory_path) ==
    IF ~PathExists(directory_path)
    THEN [kind |-> "Err",
          error |-> [variant |-> "InvalidProjectStructure",
                     reason |-> "Directory does not exist"]]
    ELSE IF ~(directory_path = ProjectDir /\ proj_kind = "dir")
    THEN [kind |-> "Err",
          error |-> [variant |-> "InvalidProjectStructure",
                     reason |-> "Path is not a directory"]]
    ELSE [kind |-> "Ok"]

\* ------------------------------------------------------- GoPlugin

RECURSIVE LastExistingCandidate(_, _, _)
\* The candidates tried from the last to the first.
LastExistingCandidate(project_directory, candidates, i) ==
    IF i > Len(candidates) THEN None
    ELSE LET later == LastExistingCandidate(project_directory, candidates, i + 1)
             entry_path == Join(project_directory, candidates[i])
         IN  IF later.some THEN later
             ELSE IF PathExists(entry_path) THEN Some(entry_path)
             ELSE None

RECURSIVE FirstExistingCandidate(_, _, _)
\* find_entry_file's first loop, from candidate i on.
FirstExistingCandidate(project_directory, candidates, i) ==
    IF i > Len(candidates) THEN None
    ELSE LET entry_path == Join(project_directory, candidates[i])
         IN  IF PathExists(entry_path) THEN Some(entry_path)
             ELSE FirstExistingCandidate(project_directory, candidates, i + 1)

RECURSIVE FirstGoEntryAnyCase(_, _)
\* The scan comparing the lowercased extension, as can_handle_project does.
FirstGoEntryAnyCase(entries, i) ==
    IF i > Len(entries) THEN None
    ELSE LET file_extension == Extension(entries[i])
         IN  IF file_extension.some /\ ToLowercase(file_extension.val) = <<"go">>
             THEN Some(entries[i])
             ELSE FirstGoEntryAnyCase(entries, i + 1)

RECURSIVE FirstGoEntry(_, _)
\* find_entry_file's second loop, from directory entry i on.
FirstGoEntry(entries, i) ==
    IF i > Len(entries) THEN None
    ELSE LET file_extension == Extension(entries[i])
         IN  IF file_extension.some /\ file_extension.val = <<"go">>
             THEN Some(entries[i])
             ELSE FirstGoEntry(entries, i + 1)

\* The built-in list named in place of the declared one.
MissingCandidatesBuiltIn == EntryFileCandidates

\* The candidates a MissingEntryFile error names.
MissingCandidates == plugin_info.entry_files

\* GoPlugin::find_entry_file.
FindEntryFile(project_directory) ==
    LET candidate == FirstExistingCandidate(project_directory, plugin_info.entry_files, 1)
        directory_entries == ReadDir(project_directory)
        scanned == IF directory_entries.ok
                   THEN FirstGoEntry(directory_entries.entries, 1)
                   ELSE None
    IN  IF candidate.some THEN [kind |-> "Ok", value |-> candidate.val]
        ELSE IF scanned.some THEN [kind |-> "Ok", value |-> scanned.val]
        ELSE [kind |-> "Err",
              error |-> [variant |-> "MissingEntryFile",
                         candidates |-> MissingCandidates]]

RECURSIVE AnySupportedEntryExactCase(_, _)
\* The loop comparing the extension as it is written.
AnySupportedEntryExactCase(entries, i) ==
    IF i > Len(entries) THEN FALSE
    ELSE LET file_extension == Extension(entries[i])
         IN  IF /\ file_extension.some
                /\ \E k \in DOMAIN plugin_info.extensions :
                       plugin_info.extensions[k] = file_extension.val
             THEN TRUE
             ELSE AnySupportedEntryExactCase(entries, i + 1)

RECURSIVE AnySupportedEntry(_, _)
\* can_handle_project's loop, from directory entry i on.
AnySupportedEntry(entries, i) ==
    IF i > Len(entries) THEN FALSE
    ELSE LET file_extension == Extension(entries[i])
         IN  IF /\ file_extension.some
                /\ \E k \in DOMAIN plugin_info.extensions :
                       plugin_info.extensions[k] = ToLowercase(file_extension.val)
             THEN TRUE
             ELSE AnySupportedEntry(entries, i + 1)

\* The detector without its marker-file check.
CanHandleProjectNoMarker(project_directory) ==
    LET directory_entries == ReadDir(project_directory)
    IN  IF directory_entries.ok
        THEN AnySupportedEntry(directory_entries.entries, 1)
        ELSE FALSE

\* GoPlugin::can_handle_project.
CanHandleProject(project_directory) ==
    LET go_module_path == JoinPaths(project_directory, <<GoMod>>)
        directory_entries == ReadDir(project_directory)
    IN  IF PathExists(go_module_path) THEN TRUE
        ELSE IF directory_entries.ok
        THEN AnySupportedEntry(directory_entries.entries, 1)
        ELSE FALSE

\* check_dependencies' install hint of a missing tool.
InstallHint(tool) ==
    CASE tool = "tinygo" -> tool \o " (install from https://tinygo.org)"
      [] tool = "go" -> tool \o " (Go compiler)"
      [] OTHER -> tool

RECURSIVE MissingDependenciesReversed(_, _)
\* The loop putting each missing tool in front of those found before.
MissingDependenciesReversed(dependencies, i) ==
    IF i > Len(dependencies) THEN <<>>
    ELSE IF ~IsToolInstalled(dependencies[i])
    THEN MissingDependenciesReversed(dependencies, i + 1) \o <<InstallHint(dependencies[i])>>
    ELSE MissingDependenciesReversed(dependencies, i + 1)

RECURSIVE MissingDependencies(_, _)
\* check_dependencies' loop, from declared tool i on.
MissingDependencies(dependencies, i) ==
    IF i > Len(dependencies) THEN <<>>
    ELSE IF ~IsToolInstalled(dependencies[i])
    THEN <<InstallHint(dependencies[i])>> \o MissingDependencies(dependencies, i + 1)
    ELSE MissingDependencies(dependencies, i + 1)

\* GoPlugin::check_dependencies.
CheckDependencies == MissingDependencies(plugin_info.dependencies, 1)

\* The entry file looked for before the directory is checked.
ValidateProjectEntryFirst(project_directory) ==
    LET checked == ValidateDirectoryExists(project_directory)
        found == FindEntryFile(project_directory)
    IN  IF found.kind = "Err" THEN found
        ELSE IF checked.kind = "Err" THEN checked
        ELSE [kind |-> "Ok"]

\* GoPlugin::validate_project.
ValidateProject(project_directory) ==
    LET checked == ValidateDirectoryExists(project_directory)
        found == FindEntryFile(project_directory)
    IN  IF checked.kind = "Err" THEN checked
        ELSE IF found.kind = "Err" THEN found
        ELSE [kind |-> "Ok"]

\* BuildConfig: verbose, optimization_level and target_type only change what
\* is printed, or are not read at all.
BuildConfigs == [project_path : {ProjectDir}, output_directory : OutputDirs]

\* PathResolver::ensure_output_directory_exists: whether fs::create_dir_all
\* succeeds; it does on a directory that is already there.
CanEnsureOutputDirectory(directory_path) ==
    directory_path \in out_dirs \/ creatable

\* build's output_filename: the entry file's stem and ".wasm".
OutputFilename(stem) == stem \o <<Dot, "wasm">>

\* The compiler's standard error passed on as it is.
BuildFailedReasonBare(stderr) == stderr

\* The reason of the error build returns for a non-zero exit.
BuildFailedReason(stderr) == "Build failed: " \o stderr

\* The reason of the error build returns when the artifact is not there.
NotCreatedReason == "TinyGo build completed but WASM file was not created"

\* -------------------------------------------------------------- calls

\* The process's exit codes: main's Ok(()), std::process::exit(1), a panic.
ExitSuccess == 0
ExitFailure == 1
ExitPanic == 101

\* No command: the plugin is called as a library.
NoCli == [command |-> "none", status |-> "none", exit_code |-> ExitSuccess, failure |-> ""]

\* A command that has ended with this exit code, having printed this failure
\* ("" when it printed none).
Exited(command, exit_code, failure) ==
    [command |-> command, status |-> "exited", exit_code |-> exit_code,
     failure |-> failure]

\* No call and no command is under way.
Idle == pc \in {"idle", "done"} /\ cli.status # "running"

\* A call that takes the declared tools out of the plugin's PluginInfo.
ReturnsConsuming(name, value) ==
    /\ op' = name
    /\ pc' = "done"
    /\ result' = value
    /\ config' = NoConfig
    /\ entry_file_path' = <<>>
    /\ output_path' = <<>>
    /\ build_command_output' = NoOutput
    /\ steps' = <<>>
    /\ invocations' = 0
    /\ fs_at_call' = [out_dirs |-> out_dirs, wasm_files |-> wasm_files]
    /\ plugin_info' = [plugin_info EXCEPT !.dependencies = <<>>]
    /\ UNCHANGED <<manifest, proj_kind, listing, sub, readable, creatable, probe,
                   out_dirs, wasm_files>>

\* A call that runs in one step: its locals are those of no build.
Returns(name, value) ==
    /\ op' = name
    /\ pc' = "done"
    /\ result' = value
    /\ config' = NoConfig
    /\ entry_file_path' = <<>>
    /\ output_path' = <<>>
    /\ build_command_output' = NoOutput
    /\ steps' = <<>>
    /\ invocations' = 0
    /\ fs_at_call' = [out_dirs |-> out_dirs, wasm_files |-> wasm_files]
    /\ UNCHANGED <<env, out_dirs, wasm_files>>

\* Plugin::can_handle_project(ProjectDir).
CallCanHandleProject ==
    /\ Idle
    /\ Returns("can_handle_project", [kind |-> "Bool", value |-> CanHandleProject(ProjectDir)])
    /\ cli' = NoCli
    /\ UNCHANGED dist

\* WasmBuilder::check_dependencies().
CallCheckDependencies ==
    /\ Idle
    /\ Returns("check_dependencies", [kind |-> "List", value |-> CheckDependencies])
    /\ cli' = NoCli
    /\ UNCHANGED dist

\* WasmBuilder::validate_project(ProjectDir).
CallValidateProject ==
    /\ Idle
    /\ Returns("validate_project", ValidateProject(ProjectDir))
    /\ cli' = NoCli
    /\ UNCHANGED dist

\* build ends with this result.
BuildReturns(value) ==
    /\ pc' = "done"
    /\ result' = value
    /\ UNCHANGED <<dist, cli>>

\* build moves on to its next step.
BuildEnters(step) ==
    /\ pc' = step
    /\ steps' = Append(steps, step)
    /\ UNCHANGED <<dist, cli>>

\* build(build_configuration) starts.  One run builds into one output
\* directory: once a directory is there, later calls name it.
BuildCalled ==
    /\ \E build_configuration \in BuildConfigs :
         /\ out_dirs # {} => build_configuration.output_directory \in out_dirs
         /\ config' = build_configuration
    /\ op' = "build"
    /\ pc' = "tool_check"
    /\ steps' = <<"tool_check">>
    /\ result' = NoResult
    /\ entry_file_path' = <<>>
    /\ output_path' = <<>>
    /\ build_command_output' = NoOutput
    /\ invocations' = 0
    /\ fs_at_call' = [out_dirs |-> out_dirs, wasm_files |-> wasm_files]
    /\ UNCHANGED <<env, out_dirs, wasm_files, dist>>

\* WasmBuilder::build(build_configuration) is called.
CallBuild ==
    /\ Idle
    /\ BuildCalled
    /\ cli' = NoCli

\* build: is tinygo installed?
BuildToolCheck ==
    /\ pc = "tool_check"
    /\ IF ~IsToolInstalled("tinygo")
       THEN /\ BuildReturns([kind |-> "Err",
                             error |-> [variant |-> "BuildToolNotFound",
                                        tool |-> "tinygo"]])
            /\ UNCHANGED steps
       ELSE /\ BuildEnters("find_entry")
            /\ UNCHANGED result
    /\ UNCHANGED <<env, out_dirs, wasm_files, op, config, entry_file_path,
                   output_path, build_command_output, invocations, fs_at_call>>

\* The output directory ensured before the entry file is resolved.
BuildFindEntryAfterMkdir ==
    /\ pc = "find_entry"
    /\ out_dirs' = IF CanEnsureOutputDirectory(config.output_directory)
                   THEN out_dirs \cup {config.output_directory}
                   ELSE out_dirs
    /\ LET found == FindEntryFile(config.project_path)
       IN  IF found.kind = "Err"
           THEN /\ BuildReturns(found)
                /\ UNCHANGED <<steps, entry_file_path>>
           ELSE /\ entry_file_path' = found.value
                /\ BuildEnters("ensure_out")
                /\ UNCHANGED result
    /\ UNCHANGED <<env, wasm_files, op, config, output_path,
                   build_command_output, invocations, fs_at_call>>

\* build: find_entry_file(project_path)?
BuildFindEntry ==
    /\ pc = "find_entry"
    /\ LET found == FindEntryFile(config.project_path)
       IN  IF found.kind = "Err"
           THEN /\ BuildReturns(found)
                /\ UNCHANGED <<steps, entry_file_path>>
           ELSE /\ entry_file_path' = found.value
                /\ BuildEnters("ensure_out")
                /\ UNCHANGED result
    /\ UNCHANGED <<env, out_dirs, wasm_files, op, config, output_path,
                   build_command_output, invocations, fs_at_call>>

\* build: ensure_output_directory_exists(output_directory)?, then the output
\* path from the entry file's stem, which file_stem().unwrap() takes.
BuildEnsureOutputDirectory ==
    /\ pc = "ensure_out"
    /\ IF ~CanEnsureOutputDirectory(config.output_directory)
       THEN /\ BuildReturns([kind |-> "Err",
                             error |-> [variant |-> "OutputDirectoryCreationFailed",
                                        path |-> config.output_directory]])
            /\ UNCHANGED <<steps, out_dirs, output_path>>
       ELSE /\ out_dirs' = out_dirs \cup {config.output_directory}
            /\ LET stem == FileStem(entry_file_path)
               IN  IF ~stem.some
                   THEN /\ BuildReturns([kind |-> "Panic"])
                        /\ UNCHANGED <<steps, output_path>>
                   ELSE /\ output_path' = Join(config.output_directory,
                                               <<OutputFilename(stem.val)>>)
                        /\ BuildEnters("invoke")
                        /\ UNCHANGED result
    /\ UNCHANGED <<env, wasm_files, op, config, entry_file_path,
                   build_command_output, invocations, fs_at_call>>

\* build: CommandExecutor::execute_command("tinygo", ["build", "-o",
\* output_path, "-target=wasm", "."], project_path, verbose)?  The compiler
\* may fail to spawn; if it runs it fails with some standard error, or ends
\* with status zero and has or has not written the artifact where build will
\* look for it.
BuildInvoke ==
    /\ pc = "invoke"
    /\ invocations' = invocations + 1
    /\ \E outcome \in Outcomes, stderr \in Stderrs, written \in BOOLEAN :
        IF outcome = "spawn_failed"
        THEN /\ stderr = "" /\ ~written
             /\ BuildReturns([kind |-> "Err", error |-> [variant |-> "Io"]])
             /\ UNCHANGED <<steps, wasm_files, build_command_output>>
        ELSE /\ outcome = "exit_zero" => stderr = ""
             /\ outcome = "exit_nonzero" => ~written
             /\ build_command_output' = [status |-> outcome, stderr |-> stderr]
             /\ wasm_files' = IF written THEN wasm_files \cup {output_path}
                              ELSE wasm_files
             /\ BuildEnters("classify")
             /\ UNCHANGED result
    /\ UNCHANGED <<env, out_dirs, op, config, entry_file_path, output_path,
                   fs_at_call>>

\* build: the compiler's status and the artifact decide the result.
BuildClassify ==
    /\ pc = "classify"
    /\ IF build_command_output.status # "exit_zero"
       THEN BuildReturns([kind |-> "Err",
                          error |-> [variant |-> "CompilationFailed",
                                     reason |-> BuildFailedReason(build_command_output.stderr)]])
       ELSE IF ~PathExists(output_path)
       THEN BuildReturns([kind |-> "Err",
                          error |-> [variant |-> "CompilationFailed",
                                     reason |-> NotCreatedReason]])
       ELSE BuildReturns([kind |-> "Ok",
                          value |-> [wasm_file_path |-> output_path,
                                     js_file_path |-> None,
                                     additional_files |-> <<>>,
                                     is_wasm_bindgen |-> FALSE]])
    /\ UNCHANGED <<env, out_dirs, wasm_files, op, config, entry_file_path,
                   output_path, build_command_output, steps, invocations,
                   fs_at_call>>

\* ------------------------------------------------------------- main

\* A command of main() that ends within one step.
CliEnds(command, exit_code, failure) ==
    /\ Returns("main", NoResult)
    /\ cli' = Exited(command, exit_code, failure)

\* Commands::CanHandle.
CliCanHandle ==
    /\ Idle
    /\ IF CanHandleProject(ProjectDir)
       THEN CliEnds("can-handle", ExitSuccess, "")
       ELSE CliEnds("can-handle", ExitFailure, "No, wasmgo cannot handle this project")
    /\ UNCHANGED dist

\* Commands::CheckDeps.
CliCheckDeps ==
    /\ Idle
    /\ IF CheckDependencies = <<>>
       THEN CliEnds("check-deps", ExitSuccess, "")
       ELSE CliEnds("check-deps", ExitFailure, "Missing required dependencies:")
    /\ UNCHANGED dist

\* Commands::Inspect.
CliInspect ==
    /\ Idle
    /\ IF ~CanHandleProject(ProjectDir)
       THEN CliEnds("inspect", ExitFailure, "Invalid project: Not a Go project")
       ELSE IF CheckDependencies # <<>>
       THEN CliEnds("inspect", ExitFailure,
                    "Some required dependencies are missing. Install them to proceed.")
       ELSE CliEnds("inspect", ExitSuccess, "")
    /\ UNCHANGED dist

\* Commands::Clean: fs::remove_dir_all(<project>/dist) if that exists; its
\* error is printed, and main goes on to its Ok(()).
CliClean ==
    /\ Idle
    /\ IF ~PathExists(Join(ProjectDir, <<Dist>>))
       THEN /\ CliEnds("clean", ExitSuccess, "")
            /\ UNCHANGED dist
       ELSE IF dist = "removable"
       THEN /\ dist' = "absent"
            /\ CliEnds("clean", ExitSuccess, "")
       ELSE /\ CliEnds("clean", ExitSuccess, "Failed to clean dist directory")
            /\ UNCHANGED dist

\* Commands::Info.
CliInfo ==
    /\ Idle
    /\ CliEnds("info", ExitSuccess, "")
    /\ UNCHANGED dist

\* Commands::Frameworks.
CliFrameworks ==
    /\ Idle
    /\ CliEnds("frameworks", ExitSuccess, "")
    /\ UNCHANGED dist

\* Commands::Run and Commands::Compile, up to the builder's call:
\* check_project_validity, check_dependencies, then the build.
CliCompile ==
    /\ Idle
    /\ \E command \in {"run", "compile"} :
        IF ~CanHandleProject(ProjectDir)
        THEN /\ CliEnds(command, ExitFailure, "Error: Not a valid Go project")
             /\ UNCHANGED dist
        ELSE IF CheckDependencies # <<>>
        THEN /\ CliEnds(command, ExitFailure, "Missing required dependencies:")
             /\ UNCHANGED dist
        ELSE /\ BuildCalled
             /\ cli' = [command |-> command, status |-> "running",
                        exit_code |-> ExitSuccess, failure |-> ""]

\* Commands::Run and Commands::Compile, from the builder's return: Ok is
\* printed, Err is printed before exit(1); a panic ends the process.
CliCompileEnds ==
    /\ pc = "done"
    /\ cli.status = "running"
    /\ cli' = CASE result.kind = "Ok" -> Exited(cli.command, ExitSuccess, "")
               [] result.kind = "Err" ->
                    Exited(cli.command, ExitFailure,
                           IF cli.command = "run"
                           THEN "Failed to prepare project for execution"
                           ELSE "Compilation failed")
               [] OTHER -> Exited(cli.command, ExitPanic, "")
    /\ UNCHANGED <<env, out_dirs, wasm_files, op, pc, config, entry_file_path,
                   output_path, build_command_output, result, steps, invocations,
                   fs_at_call, dist>>

\* ------------------------------------------------------ specification

\* The project directories a call may find.
ProjectStates ==
    { [kind |-> k, listing |-> <<>>, sub |-> {}, readable |-> FALSE]
      : k \in {"missing", "file"} }
    \cup
    { [kind |-> "dir", listing |-> l, sub |-> s, readable |-> r]
      : l \in SeqsUpTo(EntryNames, MaxEntries),
        s \in SUBSET {<<Cmd, MainGo>>},
        r \in BOOLEAN }

\* No call yet, no output yet.
InitCall ==
    /\ op = "none"
    /\ config = NoConfig
    /\ entry_file_path = <<>>
    /\ output_path = <<>>
    /\ build_command_output = NoOutput
    /\ result = NoResult
    /\ steps = <<>>
    /\ invocations = 0
    /\ out_dirs = {}
    /\ wasm_files = {}
    /\ fs_at_call = [out_dirs |-> {}, wasm_files |-> {}]
    /\ cli = NoCli

\* GoPlugin::new() on the manifest: a plugin, or no plugin and no call.
Construct ==
    LET constructed == New(manifest)
    IN  /\ plugin_info = constructed.info
        /\ pc = IF constructed.aborted THEN "aborted" ELSE "idle"

\* Any project directory under any declared entry files or extensions, the
\* tools installed.
InitProject ==
    /\ \E declared \in
         [entry_files : EntryFileLists, extensions : {DefaultInfo.extensions},
          dependencies : {DefaultInfo.dependencies}]
         \cup
         [entry_files : {DefaultInfo.entry_files}, extensions : ExtensionLists,
          dependencies : {DefaultInfo.dependencies}] :
         manifest = [readable |-> TRUE, document |-> CompleteDocument(declared)]
    /\ Construct
    /\ dist = "absent"
    /\ \E p \in ProjectStates :
         /\ p.sub # {} => Cmd \in Range(p.listing)
         /\ proj_kind = p.kind
         /\ listing = p.listing
         /\ sub = p.sub
         /\ readable = p.readable
    /\ creatable \in BOOLEAN
    /\ probe = [k \in Probes |-> "exit_zero"]

\* Any outcome of any probe under any declared dependencies, the project
\* directory holding main.go.
InitTools ==
    /\ \E declared \in
         [entry_files : {DefaultInfo.entry_files}, extensions : {DefaultInfo.extensions},
          dependencies : DependencyLists] :
         manifest = [readable |-> TRUE, document |-> CompleteDocument(declared)]
    /\ Construct
    /\ dist = "absent"
    /\ proj_kind = "dir"
    /\ listing = <<MainGo>>
    /\ sub = {}
    /\ readable = TRUE
    /\ creatable = TRUE
    /\ probe \in [Probes -> Outcomes]

\* Any manifest, complete or not, readable or not; no project directory.
InitManifest ==
    /\ manifest \in [readable : BOOLEAN, document : Documents]
    /\ Construct
    /\ dist = "absent"
    /\ proj_kind = "missing"
    /\ listing = <<>>
    /\ sub = {}
    /\ readable = FALSE
    /\ creatable = FALSE
    /\ probe = [k \in Probes |-> "exit_zero"]

\* A project with a dist directory that can or cannot be removed.
InitDist ==
    /\ manifest = [readable |-> TRUE, document |-> CompleteDocument(DefaultInfo)]
    /\ Construct
    /\ dist \in {"removable", "stuck"}
    /\ proj_kind = "dir"
    /\ listing = <<MainGo>>
    /\ sub = {}
    /\ readable = TRUE
    /\ creatable = TRUE
    /\ probe = [k \in Probes |-> "exit_zero"]

Init == InitCall /\ (InitProject \/ InitTools \/ InitManifest \/ InitDist)

Next ==
    \/ CallCanHandleProject
    \/ CallCheckDependencies
    \/ CallValidateProject
    \/ CallBuild
    \/ BuildToolCheck
    \/ BuildFindEntry
    \/ BuildEnsureOutputDirectory
    \/ BuildInvoke
    \/ BuildClassify
    \/ CliCanHandle
    \/ CliCheckDeps
    \/ CliInspect
    \/ CliClean
    \/ CliInfo
    \/ CliFrameworks
    \/ CliCompile
    \/ CliCompileEnds

Spec == Init /\ [][Next]_vars

\* ------------------------------------------------------------- claims

\* What the claims say of the project directory, read off the state.
IsDirectory == proj_kind = "dir"
HasMarker == IsDirectory /\ GoMod \in Range(listing)
Listed == IF IsDirectory /\ readable THEN Range(listing) ELSE {}
HasDot(name) == \E i \in 2..Len(name) : name[i] = Dot
\* ext is what follows the last "." of name, a "." that does not start name.
IsExtensionOf(ext, name) ==
    \E i \in 2..Len(name) :
        /\ name[i] = Dot
        /\ \A j \in (i + 1)..Len(name) : name[j] # Dot
        /\ ext = SubSeq(name, i + 1, Len(name))
\* stem is name without its extension, name itself when it has none.
IsStemOf(stem, name) ==
    \/ ~HasDot(name) /\ stem = name
    \/ \E i \in 2..Len(name) :
        /\ name[i] = Dot
        /\ \A j \in (i + 1)..Len(name) : name[j] # Dot
        /\ stem = SubSeq(name, 1, i - 1)
Declared(list) == Range(list)
GoFilesListed == {name \in Listed : IsExtensionOf(<<"go">>, name)}
ExistingCandidates ==
    {i \in DOMAIN plugin_info.entry_files :
        PathExists(Join(ProjectDir, plugin_info.entry_files[i]))}

CanHandleReturned == op = "can_handle_project" /\ pc = "done"
\* The build call is past its entry-file resolution.
FindEntryReturned == op = "build" /\ Len(steps) >= 2 /\ pc # "find_entry"
EntryResolved == FindEntryReturned /\ Len(steps) >= 3
MissingEntryFileError ==
    [kind |-> "Err",
     error |-> [variant |-> "MissingEntryFile",
                candidates |-> plugin_info.entry_files]]

\* C1: can_handle_project returns true whenever go.mod exists in the
\* directory, whatever else the directory holds and whether or not its
\* listing can be read.
C1_MarkerAlwaysHandled ==
    (CanHandleReturned /\ HasMarker) => result.value = TRUE

\* C1's case: go.mod in a directory whose listing cannot be read.
C1_Witness ==
    /\ CanHandleReturned
    /\ HasMarker
    /\ ~readable
    /\ result.value = TRUE

\* C2 as stated: without go.mod, can_handle_project returns true exactly
\* when a listed entry's extension is a member of PluginInfo.extensions.
C2_Original ==
    (CanHandleReturned /\ ~HasMarker) =>
        (result.value = TRUE <=>
            \E name \in Listed, ext \in Declared(plugin_info.extensions) :
                IsExtensionOf(ext, name))

\* C2 amended: without go.mod, can_handle_project returns true exactly when
\* the lowercased extension of an entry listed directly in the directory is
\* a member of PluginInfo.extensions; it returns false when there is no such
\* entry, when the entries lie in subdirectories only and when the directory
\* is missing or cannot be read.
C2_LowercasedExtensionHandled ==
    (CanHandleReturned /\ ~HasMarker) =>
        (result.value = TRUE <=>
            \E name \in Listed, ext \in Declared(plugin_info.extensions) :
                \E written \in {SubSeq(name, k, Len(name)) : k \in 1..Len(name)} :
                    IsExtensionOf(written, name) /\ ToLowercase(written) = ext)

\* C2's case: no go.mod, and the only entry with a supported extension
\* spells it in upper case.
C2_Witness ==
    /\ CanHandleReturned
    /\ ~HasMarker
    /\ LibGO \in Listed
    /\ GoFilesListed = {}
    /\ result.value = TRUE

\* C3: when a candidate exists, find_entry_file returns the path of the
\* first candidate, in the declared order, that exists under the project
\* directory, whatever later candidates and other .go files exist.
C3_FirstExistingCandidateWins ==
    (FindEntryReturned /\ ExistingCandidates # {}) =>
        /\ EntryResolved
        /\ \E i \in ExistingCandidates :
            /\ \A j \in ExistingCandidates : i <= j
            /\ entry_file_path = Join(ProjectDir, plugin_info.entry_files[i])

\* C3's case: the first candidate exists, and so do a later candidate and
\* another .go file that the listing yields first.
C3_Witness ==
    /\ FindEntryReturned
    /\ plugin_info.entry_files = << <<GoMod>>, <<MainGo>> >>
    /\ listing = <<MainGo, GoMod>>
    /\ readable
    /\ entry_file_path = Join(ProjectDir, <<GoMod>>)

\* C4 as stated: with no candidate there and exactly one .go file directly
\* in the directory, find_entry_file returns that file's path.
C4_Original ==
    (FindEntryReturned /\ ExistingCandidates = {} /\ IsDirectory) =>
        \A name \in Range(listing) :
            {n \in Range(listing) : IsExtensionOf(<<"go">>, n)} = {name} =>
                /\ EntryResolved
                /\ entry_file_path = Join(ProjectDir, <<name>>)

\* C4 amended: with no candidate there, a directory whose listing can be
\* read and exactly one .go file directly in it, find_entry_file returns
\* that file's path; it neither looks into subdirectories nor fails.
C4_SingleGoFileFound ==
    (FindEntryReturned /\ ExistingCandidates = {}) =>
        \A name \in Listed :
            GoFilesListed = {name} =>
                /\ EntryResolved
                /\ entry_file_path = Join(ProjectDir, <<name>>)

\* C4's case: no candidate, one .go file beside a subdirectory that holds a
\* main.go and beside a file whose extension is GO.
C4_Witness ==
    /\ FindEntryReturned
    /\ ExistingCandidates = {}
    /\ GoFilesListed = {UtilGo}
    /\ Range(listing) \in {{Cmd, UtilGo}, {LibGO, UtilGo}}
    /\ entry_file_path = Join(ProjectDir, <<UtilGo>>)

\* C5: with no candidate there and no .go file listed (none in the
\* directory, or a directory that cannot be read), find_entry_file returns
\* MissingEntryFile naming PluginInfo.entry_files as declared.
C5_MissingEntryNamesCandidates ==
    /\ (FindEntryReturned /\ ExistingCandidates = {} /\ GoFilesListed = {}) =>
          pc = "done" /\ result = MissingEntryFileError
    /\ (op = "validate_project" /\ IsDirectory /\ ExistingCandidates = {}
          /\ GoFilesListed = {}) =>
          result = MissingEntryFileError

\* C5's case: declared candidates other than the built-in ones, none there,
\* and a .go file that an unreadable listing hides.
C5_Witness ==
    /\ FindEntryReturned
    /\ plugin_info.entry_files = << <<GoMod>>, <<MainGo>> >>
    /\ IsDirectory
    /\ ~readable
    /\ UtilGo \in Range(listing)
    /\ result = MissingEntryFileError

BuildReturned == op = "build" /\ pc = "done"
TinygoProbe == probe[<<"tinygo", "version">>]
BuildToolNotFoundError ==
    [kind |-> "Err", error |-> [variant |-> "BuildToolNotFound", tool |-> "tinygo"]]

\* C6: when tinygo's version probe fails to spawn or exits non-zero, build
\* returns BuildToolNotFound naming tinygo straight from its tool check: no
\* entry file is resolved, no output directory is created and the compiler
\* is not invoked.
C6_NoToolNoBuild ==
    (op = "build" /\ pc # "tool_check" /\ TinygoProbe # "exit_zero") =>
        /\ pc = "done"
        /\ result = BuildToolNotFoundError
        /\ steps = <<"tool_check">>
        /\ entry_file_path = <<>>
        /\ invocations = 0
        /\ out_dirs = fs_at_call.out_dirs
        /\ wasm_files = fs_at_call.wasm_files

\* C6's case: a tinygo that spawns and exits non-zero, in a project that
\* could otherwise be built.
C6_Witness ==
    /\ BuildReturned
    /\ TinygoProbe = "exit_nonzero"
    /\ listing = <<MainGo>>
    /\ creatable
    /\ result = BuildToolNotFoundError

\* The artifact paths the claim expects: the output directory joined with
\* the entry file's name, its extension replaced by "wasm".
ExpectedArtifacts ==
    IF entry_file_path = <<>> THEN {}
    ELSE LET name == entry_file_path[Len(entry_file_path)]
         IN  { Join(config.output_directory, <<stem \o <<Dot, "wasm">> >>)
               : stem \in {s \in {SubSeq(name, 1, k) : k \in 0..Len(name)} :
                             IsStemOf(s, name)} }

\* C7: when the compiler exits with status zero and the output file exists,
\* build returns Ok with wasm_file_path = <output_directory>/<entry_stem>.wasm,
\* no js_file_path, no additional files and is_wasm_bindgen false.
C7_ArtifactPath ==
    (/\ BuildReturned
     /\ build_command_output.status = "exit_zero"
     /\ output_path \in wasm_files \/ ExpectedArtifacts \cap wasm_files # {}) =>
        \E artifact \in ExpectedArtifacts :
            result = [kind |-> "Ok",
                      value |-> [wasm_file_path |-> artifact,
                                 js_file_path |-> None,
                                 additional_files |-> <<>>,
                                 is_wasm_bindgen |-> FALSE]]

\* C7's case: an entry file in a subdirectory, built into a nested output
\* directory.
C7_Witness ==
    /\ BuildReturned
    /\ build_command_output.status = "exit_zero"
    /\ entry_file_path = Join(ProjectDir, <<Cmd, MainGo>>)
    /\ result.kind = "Ok"
    /\ result.value.wasm_file_path = << <<"out">>, <<"pkg">>, <<"main", Dot, "wasm">> >>

\* C8: a non-zero compiler exit yields CompilationFailed, and so does a zero
\* exit without the output file; whatever the compiler wrote to its standard
\* error, the two reasons differ, and neither case returns Ok.
C8_FailuresDistinct ==
    /\ (BuildReturned /\ build_command_output.status = "exit_nonzero") =>
        /\ result.kind = "Err"
        /\ result.error.variant = "CompilationFailed"
        /\ result.error.reason # "TinyGo build completed but WASM file was not created"
    /\ (BuildReturned /\ build_command_output.status = "exit_zero"
          /\ output_path \notin wasm_files) =>
        /\ result.kind = "Err"
        /\ result.error.variant = "CompilationFailed"
        /\ \A stderr \in Stderrs :
              result.error.reason # "Build failed: " \o stderr

\* C8's case: a failing compiler whose standard error is the very message
\* of the other failure.
C8_Witness ==
    /\ BuildReturned
    /\ build_command_output.status = "exit_nonzero"
    /\ build_command_output.stderr = "TinyGo build completed but WASM file was not created"
    /\ result.kind = "Err"
    /\ result.error.variant = "CompilationFailed"

BuildSteps == <<"tool_check", "find_entry", "ensure_out", "invoke", "classify">>

\* The steps of a build call are entered in their fixed order, each once,
\* and a call that has not returned stands at the step it entered last.
StepsInOrder ==
    op = "build" =>
        /\ Len(steps) \in 1..Len(BuildSteps)
        /\ steps = SubSeq(BuildSteps, 1, Len(steps))
        /\ pc # "done" => pc = steps[Len(steps)] /\ result = NoResult

\* C9: every build call passes through tool check, entry-file resolution,
\* output-directory creation, compiler invocation and result classification
\* in that order, never revisits a step, and ends in exactly one terminal
\* outcome, Ok or one error.
C9_OrderedStepsOneOutcome ==
    /\ StepsInOrder
    /\ BuildReturned => result.kind \in {"Ok", "Err"}

\* What the claim expects check_dependencies to return.
FailingDependencies ==
    {i \in DOMAIN plugin_info.dependencies :
        LET tool == plugin_info.dependencies[i]
        IN  probe[<<tool, IF tool = "tinygo" THEN "version" ELSE "--version">>]
              # "exit_zero"}
Hinted(tool) ==
    IF tool = "tinygo" THEN "tinygo (install from https://tinygo.org)"
    ELSE IF tool = "go" THEN "go (Go compiler)"
    ELSE tool

\* C10: check_dependencies returns one entry for each declared tool whose
\* version probe does not exit with status zero, in declaration order, and
\* none for a tool whose probe succeeds; tinygo and go carry their install
\* hint, any other tool is named as declared.
C10_MissingToolsInOrder ==
    (op = "check_dependencies" /\ pc = "done") =>
        /\ Len(result.value) = Cardinality(FailingDependencies)
        /\ \A i \in FailingDependencies :
              result.value[Cardinality({j \in FailingDependencies : j <= i})]
                = Hinted(plugin_info.dependencies[i])

\* C10's case: three declared tools, the first and the last of them missing.
C10_Witness ==
    /\ op = "check_dependencies" /\ pc = "done"
    /\ plugin_info.dependencies = <<"go", "make", "tinygo">>
    /\ probe[<<"tinygo", "--version">>] = "exit_zero"
    /\ result.value = <<"go (Go compiler)", "tinygo (install from https://tinygo.org)">>

\* The error variants of PluginError.
PluginErrorVariants ==
    {"CompilationFailed", "BuildToolNotFound", "InvalidProjectStructure",
     "MissingEntryFile", "OutputDirectoryCreationFailed", "Io"}

\* C11: every validate_project and build call returns to its caller, with Ok
\* or with a PluginError; none aborts the process.
C11_FailuresReturned ==
    (op \in {"validate_project", "build"} /\ pc = "done") =>
        /\ result.kind \in {"Ok", "Err"}
        /\ result.kind = "Err" => result.error.variant \in PluginErrorVariants

\* No entry file can be resolved: no candidate is there and no .go file is
\* listed.
Unresolvable == ExistingCandidates = {} /\ GoFilesListed = {}

\* C13: validate_project returns InvalidProjectStructure when the project
\* path is missing or is no directory, whatever an entry-file search would
\* find there; MissingEntryFile when the directory is there and no entry
\* file can be resolved; Ok exactly when the directory is there and an entry
\* file is resolved.
C13_ValidateProjectOutcome ==
    (op = "validate_project" /\ pc = "done") =>
        /\ ~IsDirectory =>
              /\ result.kind = "Err"
              /\ result.error.variant = "InvalidProjectStructure"
              /\ result.error.reason =
                    IF proj_kind = "missing" THEN "Directory does not exist"
                    ELSE "Path is not a directory"
        /\ (IsDirectory /\ Unresolvable) => result = MissingEntryFileError
        /\ result.kind = "Ok" <=> (IsDirectory /\ ~Unresolvable)

\* C13's case: the project path names a file.
C13_Witness ==
    /\ op = "validate_project" /\ pc = "done"
    /\ proj_kind = "file"
    /\ result.kind = "Err"
    /\ result.error.variant = "InvalidProjectStructure"

\* The tool check, the entry-file resolution and the creation of the output
\* directory all succeed for the call.
PrerequisitesMet ==
    /\ TinygoProbe = "exit_zero"
    /\ ~Unresolvable
    /\ creatable \/ config.output_directory \in fs_at_call.out_dirs

\* A build call spawns the compiler at most once, only with its
\* prerequisites met, and has spawned it once whenever it holds an Output.
InvokedAtMostOnce ==
    op = "build" =>
        /\ invocations <= 1
        /\ invocations = 1 => PrerequisitesMet
        /\ build_command_output # NoOutput => invocations = 1

\* C15: a build call invokes the compiler exactly once when its tool check,
\* entry-file resolution and output-directory creation all succeed, never
\* otherwise, and never again after a non-zero exit or a missing artifact.
C15_CompilerInvokedOnce ==
    /\ InvokedAtMostOnce
    /\ BuildReturned => (invocations = 1 <=> PrerequisitesMet)

\* C17: with tinygo installed and no entry file to resolve, build returns
\* MissingEntryFile, creates no output directory, writes no artifact and
\* does not invoke the compiler; a build call has created an output
\* directory only with its entry file resolved.
C17_NoEntryNoEffect ==
    /\ (op = "build" /\ pc \notin {"tool_check", "find_entry"}
          /\ TinygoProbe = "exit_zero" /\ Unresolvable) =>
        /\ pc = "done"
        /\ result = MissingEntryFileError
        /\ out_dirs = fs_at_call.out_dirs
        /\ wasm_files = fs_at_call.wasm_files
        /\ invocations = 0
    /\ (op = "build" /\ out_dirs # fs_at_call.out_dirs) =>
        /\ EntryResolved
        /\ entry_file_path # <<>>

\* C17's case: a project directory whose only source file spells its
\* extension GO, an output directory that could be created.
C17_Witness ==
    /\ BuildReturned
    /\ TinygoProbe = "exit_zero"
    /\ LibGO \in Listed
    /\ creatable
    /\ result = MissingEntryFileError
    /\ out_dirs = {}


\* ---------------------------------------------------------- C14

\* The document construction reads: the working directory's, else the
\* embedded one.
DocumentRead == IF manifest.readable THEN manifest.document ELSE EmbeddedDocument

\* The document has no metadata, no wasm-plugin table in it, or a table
\* without one of its keys.
LacksMetadata(document) ==
    \/ ~document.metadata.some
    \/ ~document.metadata.val.wasm_plugin.some
    \/ \E f \in WasmPluginFields : ~document.metadata.val.wasm_plugin.val[f].some

\* C14: construction aborts whenever the manifest read lacks the metadata
\* block or one of its required fields, and a plugin that was constructed
\* holds exactly the manifest's lists: nothing is defaulted but the author,
\* which is the first author given, or "Unknown" when none is given.
C14_AbortsOnMissingMetadata ==
    /\ LacksMetadata(DocumentRead) => pc = "aborted"
    /\ pc # "aborted" =>
        /\ plugin_info.entry_files = DocumentRead.metadata.val.wasm_plugin.val.entry_files.val
        /\ plugin_info.extensions = DocumentRead.metadata.val.wasm_plugin.val.extensions.val
        /\ plugin_info.dependencies = DocumentRead.metadata.val.wasm_plugin.val.dependencies.val
        /\ DocumentRead.authors.val = <<>> => plugin_info.author = "Unknown"
        /\ DocumentRead.authors.val # <<>> => plugin_info.author = DocumentRead.authors.val[1]

\* A readable manifest with authors and metadata but no wasm-plugin table
\* aborted construction.
C14_Witness ==
    /\ pc = "aborted"
    /\ manifest.readable
    /\ manifest.document.authors.some
    /\ manifest.document.metadata.some
    /\ ~manifest.document.metadata.val.wasm_plugin.some

\* ---------------------------------------------------------- C16

\* The output path build() names for the entry file it resolved.
ArtifactOf(entry) ==
    Join(config.output_directory, <<OutputFilename(FileStem(entry).val)>>)

\* What build() returns, from the configuration, the environment and the
\* compiler's outcome of this call alone.
ExpectedBuildResult ==
    IF TinygoProbe # "exit_zero" THEN BuildToolNotFoundError
    ELSE IF Unresolvable THEN MissingEntryFileError
    ELSE IF ~(creatable \/ config.output_directory \in fs_at_call.out_dirs)
    THEN [kind |-> "Err",
          error |-> [variant |-> "OutputDirectoryCreationFailed",
                     path |-> config.output_directory]]
    ELSE IF ~FileStem(entry_file_path).some THEN [kind |-> "Panic"]
    ELSE IF build_command_output = NoOutput
    THEN [kind |-> "Err", error |-> [variant |-> "Io"]]
    ELSE IF build_command_output.status = "exit_nonzero"
    THEN [kind |-> "Err",
          error |-> [variant |-> "CompilationFailed",
                     reason |-> "Build failed: " \o build_command_output.stderr]]
    ELSE IF ArtifactOf(entry_file_path) \notin wasm_files
    THEN [kind |-> "Err",
          error |-> [variant |-> "CompilationFailed", reason |-> NotCreatedReason]]
    ELSE [kind |-> "Ok",
          value |-> [wasm_file_path |-> ArtifactOf(entry_file_path),
                     js_file_path |-> None,
                     additional_files |-> <<>>,
                     is_wasm_bindgen |-> FALSE]]

\* C16: no call changes the PluginInfo set at construction, and what build()
\* returns is decided by its configuration and the environment of this call,
\* whatever earlier calls returned.
C16_InfoConstantOutcomeByInputs ==
    /\ plugin_info = New(manifest).info
    /\ BuildReturned => result = ExpectedBuildResult

\* A build that succeeds in an output directory an earlier build, which
\* left no artifact, had created.
C16_Witness ==
    /\ BuildReturned
    /\ result.kind = "Ok"
    /\ config.output_directory \in fs_at_call.out_dirs
    /\ fs_at_call.wasm_files = {}
    /\ plugin_info = New(manifest).info


\* ---------------------------------------------------------- C12

\* The command main() ran found a failure: a project it cannot handle, a
\* declared tool that is missing, an error from the build, or a dist
\* directory that is still there after clean tried to remove it.
FailureDetected ==
    \/ /\ cli.command \in {"run", "compile", "inspect", "can-handle"}
       /\ ~CanHandleProject(ProjectDir)
    \/ /\ cli.command \in {"run", "compile", "inspect", "check-deps"}
       /\ CheckDependencies # <<>>
    \/ /\ cli.command \in {"run", "compile"}
       /\ op = "build"
       /\ result.kind = "Err"
    \/ /\ cli.command = "clean"
       /\ PathExists(Join(ProjectDir, <<Dist>>))

\* C12: a command that detected a failure ends the process with exit code
\* 1, and a command ends with exit code 0 only when it detected none.
C12_FailureExitsOne ==
    cli.status = "exited" =>
        /\ FailureDetected => cli.exit_code = ExitFailure
        /\ cli.exit_code = ExitSuccess => ~FailureDetected

\* Every command but clean keeps to it.
C12_AllButClean == cli.command = "clean" \/ C12_FailureExitsOne

====
